---- MODULE Spec2Model ----
(***************************************************************************)
(* Orchestration of professional_dem_app.py: the per-input reconstruction  *)
(* pipeline (run_asp_processing) driven by process_asp_reconstruction, the *)
(* tile merge (merge_dems) and the coregistration dispatcher               *)
(* (process_coregistration).  The external tools are opaque: each          *)
(* invocation ends with a timeout, a non-zero exit or exit 0, and on exit  *)
(* 0 it may or may not have written its output files.  The job's temporary *)
(* directory is modelled by the files the code later probes with glob or   *)
(* os.path.exists.                                                         *)
(***************************************************************************)
EXTENDS Integers, Sequences, FiniteSets, TLC

VARIABLES
    inputs,        \* uploaded archives of the job, in upload order
    cur,           \* index of the input the for-loop is at
    pc,            \* position of process_asp_reconstruction / run_asp_processing
    aspReady,      \* /tmp/asp/bin exists (setup_asp_for_cloud)
    extracted,     \* inputs whose *.tif files lie directly in asp_work/extracted
    nested,        \* inputs whose *.tif files lie one directory deeper
    bands,         \* asp_work/asp: per product file, the input whose invocation wrote it (0: absent)
    pcFile,        \* asp_work/stereo/stereo-PC.tif: the input whose invocation wrote it (0: absent)
    demFiles,      \* base names X with a file dem_X-DEM.tif in the job directory
    run,           \* per input: what its pipeline did (invocations, outcomes, gates)
    results,       \* the results list of process_asp_reconstruction
    msgs,          \* the st.error / st.warning / st.success reports, in order
    dem_files,     \* argument of merge_dems: the tiles to merge
    mpc,           \* position inside merge_dems
    tempDems,      \* tiles copied to temp_dems
    handles,       \* raster handles merge_dems holds open
    mosaic,        \* the array rasterio.merge returned
    out_meta,      \* out_meta of merge_dems: the metadata of the first opened source
    mergedFile,    \* raster written to merged_dem.tif (NoRaster: absent)
    mergedMeta,    \* reference system and pixel size of merged_dem.tif
    mergeRet,      \* value merge_dems returned
    method,        \* method label given to process_coregistration
    cpc,           \* position of process_coregistration
    cop30_result,  \* cop30_result of the ensemble branch
    result,        \* result of process_coregistration
    ccalls,        \* alignment tool invocations, in order
    elev_filter,   \* the elevation filtering checkbox given to process_coregistration
    branch,        \* branch of the method dispatch that was taken
    temp_dir,      \* the job's tempfile.TemporaryDirectory: "none", "exists" or "removed"
    coord_system,  \* the coordinate system option given to run_asp_processing
    custom_epsg,   \* the EPSG code typed into the form's text input
    zone,          \* UTM zone of the centre longitude of the scene in the archive
    resolution,    \* the output resolution option
    spc,           \* position in the preparation of the point2dem command
    target_srs,    \* target_srs of run_asp_processing (an EPSG code, 0: not set)
    point2dem_cmd, \* the options of the point2dem command line
    epc,           \* position of process_end_to_end
    validation,    \* the validation report checkbox given to process_end_to_end
    merge_option   \* the multiple files option given to process_end_to_end

vars == <<inputs, cur, pc, aspReady, extracted, nested, bands, pcFile, demFiles,
          run, results, msgs, dem_files, mpc, tempDems, handles, mosaic,
          out_meta, mergedFile, mergedMeta, mergeRet, method, cpc, cop30_result, result, ccalls,
          elev_filter, branch, temp_dir, coord_system, custom_epsg, zone,
          resolution, spc, target_srs, point2dem_cmd, epc, validation,
          merge_option>>

reconVars == <<inputs, cur, pc, aspReady, extracted, nested, bands, pcFile,
               demFiles, run, results>>
mergeVars == <<dem_files, mpc, tempDems, handles, mosaic, out_meta, mergedFile,
               mergedMeta, mergeRet>>
coregVars == <<method, cpc, cop30_result, result, ccalls, elev_filter, branch>>
srsVars == <<coord_system, custom_epsg, zone, resolution, spc, target_srs,
             point2dem_cmd>>
e2eVars == <<epc, validation, merge_option>>

-----------------------------------------------------------------------------
(* Bounds *)

MaxInputs == 2
MaxTiles == 3

-----------------------------------------------------------------------------
(* Values shared by the operations *)

\* Python's None for a path: the empty path, which is falsy like None.
None == <<>>

\* Base names of uploaded archives (uploaded_file.name without ".zip"), as
\* character sequences: "a", "ab" and "c".  "a" is a prefix of "ab".
Names == {<<"a">>, <<"a", "b">>, <<"c">>, <<"d">>}

\* The order in which a job's archives are uploaded: the name that is a
\* prefix of another one comes after it, the others share no prefix.
UploadOrders ==
    { <<(<<"a", "b">>), (<<"a">>), (<<"c">>), (<<"d">>)>> }

\* What a zip archive can be: not a zip at all, a zip whose reading fails
\* part-way, a zip without imagery, one with imagery one directory deep, one
\* with imagery at its root.
ArchiveKinds == {"unreadable", "truncated", "empty", "nested", "root"}

\* subprocess.run ends by raising TimeoutExpired, or returns a return code.
ToolOutcomes == {"timeout", "fail", "ok"}

BandFiles == {"Band3N.tif", "Band3B.tif", "Band3N.xml", "Band3B.xml"}

\* The sets of product files one aster2asp run may leave behind: none, all
\* but one metadata file, all four.
ConversionOutputs ==
    { {}, {"Band3N.tif", "Band3B.tif", "Band3N.xml"}, BandFiles }

IsPrefix(p, s) == Len(p) <= Len(s) /\ SubSeq(s, 1, Len(p)) = p

\* glob.glob(f"{dem_output}*DEM.tif") with dem_output = <dir>/dem_<base>:
\* dem_X-DEM.tif matches when X starts with <base>.
DemGlob(base, files) == {x \in files : IsPrefix(base, x)}

Msg(level, text, i) == [level |-> level, text |-> text, input |-> i]

NewRun ==
    [ status |-> "pending", ret |-> None,
      calls |-> [aster2asp |-> 0, stereo |-> 0, point2dem |-> 0],
      outcome |-> [aster2asp |-> "none", stereo |-> "none", point2dem |-> "none"],
      gate |-> [tifs |-> FALSE, bands |-> FALSE, meta |-> FALSE, pc |-> FALSE,
                dem |-> FALSE],
      own |-> [tifs |-> FALSE, bands |-> FALSE, pc |-> FALSE, dem |-> FALSE],
      orphan |-> FALSE ]

N == Len(inputs)
NameOf(i) == inputs[i].name


-----------------------------------------------------------------------------
(* Rasters *)

\* --nodata-value of point2dem
NoData == -9999

Pixels == {1, 2}
Elevations == {100, 150, 200}
Coverages == {{1}, {2}, {1, 2}}

FlatRaster(v, cov) == [p \in Pixels |-> IF p \in cov THEN v ELSE NoData]
Rasters == {FlatRaster(v, cov) : v \in Elevations, cov \in Coverages}
NoRaster == [p \in Pixels |-> NoData]

\* Reference system and pixel size of a raster: --t_srs and --tr of point2dem
\* for a tile the job wrote, and another pixel size from the resolution list.
JobGeometry == [crs |-> "EPSG:32643", res |-> 30]
FineGeometry == [crs |-> "EPSG:32643", res |-> 15]
NoGeometry == [crs |-> "none", res |-> 0]

\* A tile handed to merge_dems: a path that exists or not, its raster and
\* its geometry.
MissingTile == [exists |-> FALSE, data |-> NoRaster, geom |-> NoGeometry]
Tiles ==
    {[exists |-> TRUE, data |-> r, geom |-> JobGeometry] : r \in Rasters}
        \cup {MissingTile}

\* The tile lists of a call of merge_dems: tiles of the job's geometry, at
\* most one of them replaced by a tile of the finer pixel size.
Refined(tiles, k) ==
    IF k \in 1..Len(tiles) /\ tiles[k].exists
    THEN [tiles EXCEPT ![k].geom = FineGeometry]
    ELSE tiles

\* The raster of the elevation file the job wrote for an archive.
DemData(name) ==
    IF name = <<"a">> THEN FlatRaster(100, {1, 2})
    ELSE IF name = <<"a", "b">> THEN FlatRaster(150, {2})
    ELSE FlatRaster(200, {1})

MergedPath == <<"merged_dem">>

SetMax(S) == CHOOSE x \in S : \A y \in S : y <= x

\* rasterio.merge.merge(sources, method='max'): at each pixel the largest
\* valid value of the sources, nodata where no source has a valid value.
MergeMethodMin(srcs) ==
    [p \in Pixels |->
        LET vals == {dem_files[k].data[p] : k \in srcs} \ {NoData}
        IN IF vals = {} THEN NoData ELSE CHOOSE x \in vals : \A y \in vals : x <= y]
MergeMethodMax(srcs) ==
    [p \in Pixels |->
        LET vals == {dem_files[k].data[p] : k \in srcs} \ {NoData}
        IN IF vals = {} THEN NoData ELSE SetMax(vals)]

-----------------------------------------------------------------------------
(* run_asp_processing and the loop of process_asp_reconstruction *)

\* with tempfile.TemporaryDirectory() as temp_dir: the directory and all that
\* is in it are removed when the block is left, by its end or by an exception
TempDirKept == "exists"
TempDirAfterWith == "removed"

LoopAppendsAlways(r) == TRUE
\* if result: results.append(result)
LoopAppends(r) == r # None

ReturnFromRunRetry(i, r, rn) ==
    LET again == r = None /\ rn[i].calls.stereo = 1
    IN /\ run' = [rn EXCEPT ![i].status = IF r = None THEN "failed" ELSE "ok",
                            ![i].ret = r]
       /\ results' = IF r # None THEN Append(results, r) ELSE results
       /\ cur' = IF again THEN i ELSE i + 1
       /\ pc' = IF again THEN "stereo" ELSE IF i + 1 > N THEN "merge_check" ELSE "extract"
\* run_asp_processing returns r for input i; the for-loop goes on to the
\* next input, or leaves the loop after the last one.
ReturnFromRun(i, r, rn) ==
    /\ run' = [rn EXCEPT ![i].status = IF r = None THEN "failed" ELSE "ok",
                         ![i].ret = r]
    /\ results' = IF LoopAppends(r) THEN Append(results, r) ELSE results
    /\ cur' = i + 1
    /\ pc' = IF i + 1 > N THEN "merge_check" ELSE "extract"

ContinueRun(rn, next) ==
    /\ run' = rn
    /\ pc' = next
    /\ UNCHANGED <<cur, results>>

\* The reports whose text ends with the stderr the tool wrote:
\* st.error(f"aster2asp failed: {result.stderr}") and the like
CarriesToolOutput(m) ==
    m.text \in {"aster2asp failed", "Stereo processing failed", "point2dem failed",
                "COP30 coregistration failed"}

ReportNothing(level, text, i) == msgs' = msgs
Report(level, text, i) == msgs' = Append(msgs, Msg(level, text, i))

\* work_dir = os.path.join(output_dir, "asp_work") and the directories of the
\* stages below it, for the i-th input of the job
WorkDir(i) == <<"asp_work">>
ExtractDir(i) == WorkDir(i) \o <<"extracted">>
AspOutputDir(i) == WorkDir(i) \o <<"asp">>
StereoDir(i) == WorkDir(i) \o <<"stereo">>

\* tif_files = glob(extract_dir/*.tif); if not tif_files: return None
TifFilesFound(ex) == ex # {}

\* zipfile extraction into asp_work/extracted, then the search for *.tif
Extract ==
    /\ pc = "extract"
    /\ cur <= N
    /\ LET i == cur
           k == inputs[i].archive
       IN \E wrote \in BOOLEAN :
           LET ex == IF k = "root" \/ (k = "truncated" /\ wrote)
                     THEN extracted \cup {i} ELSE extracted
               ne == IF k = "nested" THEN nested \cup {i} ELSE nested
               raised == k \in {"unreadable", "truncated"}
               found == TifFilesFound(ex)
               rn == [run EXCEPT ![i].status = "running",
                                 ![i].gate.tifs = (~raised /\ ex # {}),
                                 ![i].own.tifs = (k = "root")]
           IN /\ extracted' = ex
              /\ nested' = ne
              /\ IF raised
                 THEN Report("error", "Processing failed", i) /\ ReturnFromRun(i, None, rn)
                 ELSE IF ~found
                 THEN Report("error", "No TIF files found in zip archive", i)
                      /\ ReturnFromRun(i, None, rn)
                 ELSE Report("success", "Extracted TIF files", i)
                      /\ ContinueRun(rn, "convert")
    /\ UNCHANGED <<inputs, aspReady, bands, pcFile, demFiles>>
    /\ UNCHANGED <<mergeVars, coregVars, srsVars, e2eVars, temp_dir>>

\* subprocess.run(cmd, shell=True, ..., timeout=...): when the timeout expires
\* the child, which is the shell, is killed and waited for; a process the
\* shell or the tool started may live on.
LeftRunning(out, survives) == out = "timeout" /\ survives

ConversionSucceededAlways(out) == out # "timeout"
\* if result.returncode != 0: return None   (after aster2asp)
ConversionSucceeded(out) == out = "ok"

\* if not band3n_files or not band3b_files: return None
BandsFound(b) == b["Band3N.tif"] # 0 /\ b["Band3B.tif"] # 0

\* setup_asp_for_cloud, the aster2asp invocation and the search for the bands
Convert ==
    /\ pc = "convert"
    /\ LET i == cur IN
       \E setupOk \in BOOLEAN, out \in ToolOutcomes, written \in ConversionOutputs,
          survives \in BOOLEAN :
           /\ out # "timeout" => ~survives
           /\ aspReady => setupOk
           /\ out # "ok" => written = {}
           /\ ~setupOk => (out = "ok" /\ written = {})
           /\ aspReady' = (aspReady \/ setupOk)
           /\ IF ~setupOk
              THEN /\ Report("error", "Failed to setup ASP tools", i)
                   /\ ReturnFromRun(i, None, run)
                   /\ UNCHANGED bands
              ELSE LET b == [f \in BandFiles |-> IF f \in written THEN i ELSE bands[f]]
                       rn == [run EXCEPT ![i].calls.aster2asp = @ + 1,
                                         ![i].outcome.aster2asp = out,
                                         ![i].gate.bands = (b["Band3N.tif"] # 0 /\ b["Band3B.tif"] # 0),
                                         ![i].gate.meta = (b["Band3N.xml"] # 0 /\ b["Band3B.xml"] # 0),
                                         ![i].own.bands = ({"Band3N.tif", "Band3B.tif"} \subseteq written),
                                         ![i].orphan = LeftRunning(out, survives)]
                   IN /\ bands' = b
                      /\ IF out = "timeout"
                         THEN Report("error", "Processing timed out", i)
                              /\ ReturnFromRun(i, None, rn)
                         ELSE IF ~ConversionSucceeded(out)
                         THEN Report("error", "aster2asp failed", i)
                              /\ ReturnFromRun(i, None, rn)
                         ELSE IF ~BandsFound(b)
                         THEN Report("error", "Could not find Band3N or Band3B files", i)
                              /\ ReturnFromRun(i, None, rn)
                         ELSE Report("success", "ASTER to ASP conversion completed", i)
                              /\ ContinueRun(rn, "stereo")
    /\ UNCHANGED <<inputs, extracted, nested, pcFile, demFiles>>
    /\ UNCHANGED <<mergeVars, coregVars, srsVars, e2eVars, temp_dir>>

\* if result.returncode != 0: return None   (after stereo)
StereoSucceeded(out) == out = "ok"

\* if not os.path.exists(point_cloud): return None
PointCloudExists(p) == p # 0

\* the stereo invocation and the check of stereo-PC.tif
Stereo ==
    /\ pc = "stereo"
    /\ LET i == cur IN
       \E out \in ToolOutcomes, wrote \in BOOLEAN, survives \in BOOLEAN :
           /\ out # "ok" => ~wrote
           /\ out # "timeout" => ~survives
           /\ LET p == IF wrote THEN i ELSE pcFile
                  rn == [run EXCEPT ![i].calls.stereo = @ + 1,
                                    ![i].outcome.stereo = out,
                                    ![i].gate.pc = (p # 0),
                                    ![i].own.pc = wrote,
                                    ![i].orphan = LeftRunning(out, survives)]
              IN /\ pcFile' = p
                 /\ IF out = "timeout"
                    THEN Report("error", "Processing timed out", i)
                         /\ ReturnFromRun(i, None, rn)
                    ELSE IF ~StereoSucceeded(out)
                    THEN Report("error", "Stereo processing failed", i)
                         /\ ReturnFromRun(i, None, rn)
                    ELSE IF ~PointCloudExists(p)
                    THEN Report("error", "Point cloud file not found", i)
                         /\ ReturnFromRun(i, None, rn)
                    ELSE Report("success", "Stereo processing completed", i)
                         /\ ContinueRun(rn, "point2dem")
    /\ UNCHANGED <<inputs, aspReady, extracted, nested, bands, demFiles>>
    /\ UNCHANGED <<mergeVars, coregVars, srsVars, e2eVars, temp_dir>>

\* if result.returncode != 0: return None   (after point2dem)
Point2demSucceeded(out) == out = "ok"

\* the point2dem invocation and the search for the elevation raster
Point2dem ==
    /\ pc = "point2dem"
    /\ LET i == cur IN
       \E out \in ToolOutcomes, wrote \in BOOLEAN, survives \in BOOLEAN :
           /\ out # "ok" => ~wrote
           /\ out # "timeout" => ~survives
           /\ LET d == IF wrote THEN demFiles \cup {NameOf(i)} ELSE demFiles
                  found == DemGlob(NameOf(i), d)
                  rn == [run EXCEPT ![i].calls.point2dem = @ + 1,
                                    ![i].outcome.point2dem = out,
                                    ![i].gate.dem = (found # {}),
                                    ![i].own.dem = wrote,
                                    ![i].orphan = LeftRunning(out, survives)]
              IN /\ demFiles' = d
                 /\ IF out = "timeout"
                    THEN Report("error", "Processing timed out", i)
                         /\ ReturnFromRun(i, None, rn)
                    ELSE IF ~Point2demSucceeded(out)
                    THEN Report("error", "point2dem failed", i)
                         /\ ReturnFromRun(i, None, rn)
                    ELSE IF found = {}
                    THEN Report("error", "Could not find output DEM file", i)
                         /\ ReturnFromRun(i, None, rn)
                    ELSE \E x \in found :
                            Report("success", "DEM generation completed", i)
                            /\ ReturnFromRun(i, x, rn)
    /\ UNCHANGED <<inputs, aspReady, extracted, nested, bands, pcFile>>
    /\ UNCHANGED <<mergeVars, coregVars, srsVars, e2eVars, temp_dir>>

NeedsMergeForAny(res) == Len(res) > 0
\* if len(results) > 1: merged_result = merge_dems(results, temp_dir)
NeedsMerge(res) == Len(res) > 1

MergeCheck ==
    /\ pc = "merge_check"
    /\ IF NeedsMerge(results)
       THEN /\ pc' = "merge"
            /\ dem_files' = [k \in 1..Len(results) |->
                                [exists |-> TRUE, data |-> DemData(results[k]),
                                 geom |-> JobGeometry]]
            /\ mpc' = "start"
       ELSE /\ pc' = "display"
            /\ UNCHANGED <<dem_files, mpc>>
    /\ UNCHANGED <<inputs, cur, aspReady, extracted, nested, bands, pcFile,
                   demFiles, run, results, msgs>>
    /\ UNCHANGED <<tempDems, handles, mosaic, out_meta, mergedFile, mergedMeta,
                   mergeRet, coregVars, srsVars, e2eVars, temp_dir>>

\* if merged_result: results.append(merged_result)
MergeReturn ==
    /\ pc = "merge"
    /\ mpc = "returned"
    /\ results' = IF mergeRet # None THEN Append(results, mergeRet) ELSE results
    /\ pc' = "display"
    /\ UNCHANGED <<inputs, cur, aspReady, extracted, nested, bands, pcFile,
                   demFiles, run, msgs>>
    /\ UNCHANGED <<mergeVars, coregVars, srsVars, e2eVars, temp_dir>>

\* display_processing_results(results)
\* display_processing_results(results); leaving the with block of
\* tempfile.TemporaryDirectory() removes the directory
Display ==
    /\ pc = "display"
    /\ pc' = "done"
    /\ temp_dir' = TempDirAfterWith
    /\ msgs' = Append(msgs, Msg("status", "Processing complete!", 0))
    /\ UNCHANGED <<inputs, cur, aspReady, extracted, nested, bands, pcFile,
                   demFiles, run, results>>
    /\ UNCHANGED <<mergeVars, coregVars, srsVars, e2eVars>>

-----------------------------------------------------------------------------
(* run_asp_processing: the coordinate system and the point2dem command *)

\* The options of the "Coordinate System" selectbox
AutoUtm == "Auto (Local UTM)"
Wgs84 == "EPSG:4326 (WGS84)"
CustomEpsg == "Custom EPSG"
CoordSystems == {AutoUtm, Wgs84, CustomEpsg}

\* EPSG codes a user may type into "Enter EPSG Code"; 32643 is the default
EpsgCodes == {32643, 32644, 3857}

\* The options of the "Output Resolution (meters)" selectbox
Resolutions == {30, 15, 10, 5}

\* UTM zones of the scenes: 42, 43 and 44 cover 66E to 84E
Zones == {42, 43, 44}

\* if coord_system == "Auto (Local UTM)": target_srs = "EPSG:32643"
\* elif coord_system == "EPSG:4326 (WGS84)": target_srs = "EPSG:4326"
\* else: target_srs = "EPSG:32643"
TargetSrs(cs) ==
    IF cs = AutoUtm THEN 32643
    ELSE IF cs = Wgs84 THEN 4326
    ELSE 32643

NoCommand == [tr |-> 0, t_srs |-> 0, nodata |-> 0]

\* point2dem ... --tr {resolution} --t_srs {target_srs} --nodata-value -9999.0
Point2demCommand(res, srs) == [tr |-> res, t_srs |-> srs, nodata |-> NoData]

srsOuter == <<reconVars, mergeVars, coregVars, e2eVars, msgs, temp_dir>>

\* # Determine coordinate system
ResolveSrs ==
    /\ spc = "srs"
    /\ target_srs' = TargetSrs(coord_system)
    /\ spc' = "command"
    /\ UNCHANGED <<coord_system, custom_epsg, zone, resolution, point2dem_cmd, srsOuter>>

\* point2dem_cmd = f"point2dem ..."
BuildPoint2dem ==
    /\ spc = "command"
    /\ point2dem_cmd' = Point2demCommand(resolution, target_srs)
    /\ spc' = "built"
    /\ UNCHANGED <<coord_system, custom_epsg, zone, resolution, target_srs, srsOuter>>

-----------------------------------------------------------------------------
(* merge_dems *)

MergeReturns(r) ==
    /\ mergeRet' = r
    /\ mpc' = "returned"

mergeOuter == <<inputs, cur, pc, aspReady, extracted, nested, bands, pcFile,
                demFiles, run, results, srsVars, e2eVars, temp_dir>>

\* if len(dem_files) == 1:
IsSingleNever(files) == FALSE
IsSingle(files) == Len(files) = 1

\* shutil.copy2(single_dem, merged_path); return merged_path
MergeSingle ==
    /\ pc = "merge"
    /\ mpc = "start"
    /\ IsSingle(dem_files)
    /\ IF dem_files[1].exists
       THEN /\ mergedFile' = dem_files[1].data
            /\ mergedMeta' = dem_files[1].geom
            /\ Report("success", "Single DEM copied", 0)
            /\ MergeReturns(MergedPath)
       ELSE /\ Report("error", "DEM merging failed", 0)
            /\ MergeReturns(None)
            /\ UNCHANGED <<mergedFile, mergedMeta>>
    /\ UNCHANGED <<dem_files, tempDems, handles, mosaic, out_meta>>
    /\ UNCHANGED <<mergeOuter, coregVars>>

\* for dem_file in dem_files: if os.path.exists(dem_file): copy to temp_dems
ExistingTiles == {k \in 1..Len(dem_files) : dem_files[k].exists}

MergeCopy ==
    /\ pc = "merge"
    /\ mpc = "start"
    /\ ~IsSingle(dem_files)
    /\ tempDems' = ExistingTiles
    /\ mpc' = "open"
    /\ UNCHANGED <<dem_files, handles, mosaic, out_meta, mergedFile, mergedMeta,
                   mergeRet, msgs>>
    /\ UNCHANGED <<mergeOuter, coregVars>>

\* src_files_to_mosaic: rasterio.open of every copied tile; an open that
\* raises leaves the handles opened before it open.
MergeOpen ==
    /\ pc = "merge"
    /\ mpc = "open"
    /\ \E opened \in SUBSET tempDems :
        /\ handles' = opened
        /\ IF opened # tempDems
           THEN Report("error", "DEM merging failed", 0) /\ MergeReturns(None)
           ELSE IF opened = {}
           THEN Report("error", "No valid DEM files to merge", 0) /\ MergeReturns(None)
           ELSE mpc' = "mosaic" /\ UNCHANGED <<mergeRet, msgs>>
    /\ UNCHANGED <<dem_files, tempDems, mosaic, out_meta, mergedFile, mergedMeta>>
    /\ UNCHANGED <<mergeOuter, coregVars>>

\* out_meta = src_files_to_mosaic[0].meta.copy()
OutMeta(first) == dem_files[first].geom

\* mosaic, out_trans = merge(src_files_to_mosaic, method='max'); out_meta is
\* taken from the source glob.glob listed first, which is any of them; then
\* the sources are closed
MergeMosaic ==
    /\ pc = "merge"
    /\ mpc = "mosaic"
    /\ \E ok \in BOOLEAN :
        IF ok
        THEN /\ mosaic' = MergeMethodMax(handles)
             /\ \E first \in handles : out_meta' = OutMeta(first)
             /\ handles' = {}
             /\ mpc' = "write"
             /\ UNCHANGED <<mergeRet, msgs>>
        ELSE /\ Report("error", "DEM merging failed", 0)
             /\ MergeReturns(None)
             /\ UNCHANGED <<mosaic, out_meta, handles>>
    /\ UNCHANGED <<dem_files, tempDems, mergedFile, mergedMeta>>
    /\ UNCHANGED <<mergeOuter, coregVars>>

\* dest.write(mosaic); shutil.rmtree(temp_dem_dir); return merged_path
MergeWrite ==
    /\ pc = "merge"
    /\ mpc = "write"
    /\ \E ok \in BOOLEAN :
        IF ok
        THEN /\ mergedFile' = mosaic
             /\ mergedMeta' = out_meta
             /\ tempDems' = {}
             /\ Report("success", "DEMs merged successfully", 0)
             /\ MergeReturns(MergedPath)
        ELSE /\ Report("error", "DEM merging failed", 0)
             /\ MergeReturns(None)
             /\ UNCHANGED <<mergedFile, mergedMeta, tempDems>>
    /\ UNCHANGED <<dem_files, handles, mosaic, out_meta>>
    /\ UNCHANGED <<mergeOuter, coregVars>>

-----------------------------------------------------------------------------
(* process_coregistration, run_cop30_coregistration, run_icesat2_coregistration *)

\* The labels of the st.radio of dem_coregistration_only, word by word, and a
\* label that names neither reference: the only kind of argument that reaches
\* the else branch of the dispatch.
LabelCop30 == <<"COP30", "(Recommended", "-", "Global", "Coverage)">>
LabelIcesat2 == <<"ICESat-2", "(High", "Accuracy", "-", "Where", "Available)">>
LabelEnsemble == <<"Ensemble", "(", "COP30", "+", "ICESat-2", ")">>
LabelPlainEnsemble == <<"Ensemble">>

RadioLabels == {LabelCop30, LabelIcesat2, LabelEnsemble}
MethodLabels == RadioLabels \cup {LabelPlainEnsemble}

\* "<word>" in method
Contains(label, word) == \E k \in 1..Len(label) : label[k] = word

\* if "COP30" in method:
SelectsCop30Never(m) == FALSE
SelectsCop30(m) == Contains(m, "COP30")
\* elif "ICESat-2" in method:
SelectsIcesat2(m) == Contains(m, "ICESat-2")

InputDem == <<"input_dem">>
Cop30Out == <<"COP30_DEM">>
Icesat2Out == <<"ICESat2_DEM">>

\* subprocess.run of the alignment script: it raises (TimeoutExpired, or the
\* interpreter cannot be started), or returns a return code.
AlignOutcomes == {"timeout", "launch", "fail", "ok"}

Cop30ResultOnExit(out, wrote) == IF out = "ok" THEN Cop30Out ELSE None
\* return value of run_cop30_coregistration
Cop30Result(out, wrote) == IF out = "ok" /\ wrote THEN Cop30Out ELSE None
\* return value of run_icesat2_coregistration
Icesat2Result(out, wrote) == IF out = "ok" /\ wrote THEN Icesat2Out ELSE None

\* the reports of run_cop30_coregistration
Cop30Reports(out) ==
    IF out = "fail" THEN <<Msg("error", "COP30 coregistration failed", 0)>>
    ELSE IF out = "ok" THEN <<>>
    ELSE <<Msg("error", "COP30 coregistration error", 0)>>
\* the reports of run_icesat2_coregistration
Icesat2Reports(out) ==
    IF out = "ok" THEN <<>> ELSE <<Msg("warning", "ICESat-2 coregistration", 0)>>

Call(tool, dem, out, wrote) == [tool |-> tool, dem |-> dem, out |-> out, wrote |-> wrote]

coregOuter == <<reconVars, mergeVars, srsVars, e2eVars>>

\* with open(dem_path, 'wb') as f: f.write(uploaded_dem.read()); an exception
\* here is caught by the except clause of process_coregistration
CoregSave ==
    /\ cpc = "start"
    /\ \E ok \in BOOLEAN :
        IF ok
        THEN cpc' = "dispatch" /\ UNCHANGED <<msgs, temp_dir>>
        ELSE /\ cpc' = "done"
             /\ Report("error", "Coregistration failed", 0)
             /\ temp_dir' = TempDirAfterWith
    /\ UNCHANGED <<method, cop30_result, result, ccalls, elev_filter, branch, coregOuter>>

CoregDispatch ==
    /\ cpc = "dispatch"
    /\ branch' = IF SelectsCop30(method) THEN "cop30"
                 ELSE IF SelectsIcesat2(method) THEN "icesat2"
                 ELSE "ensemble"
    /\ cpc' = IF branch' = "ensemble" THEN "ens_cop30" ELSE branch'
    /\ UNCHANGED <<method, cop30_result, result, ccalls, elev_filter, msgs, temp_dir,
                   coregOuter>>

\* result = run_cop30_coregistration(dem_path, ...)
RunCop30 ==
    /\ cpc = "cop30"
    /\ \E out \in AlignOutcomes, wrote \in BOOLEAN :
        /\ out # "ok" => ~wrote
        /\ ccalls' = Append(ccalls, Call("cop30", InputDem, out, wrote))
        /\ result' = Cop30Result(out, wrote)
        /\ msgs' = msgs \o Cop30Reports(out)
    /\ cpc' = "report"
    /\ UNCHANGED <<method, cop30_result, elev_filter, branch, temp_dir, coregOuter>>

\* result = run_icesat2_coregistration(dem_path, ...)
RunIcesat2 ==
    /\ cpc = "icesat2"
    /\ \E out \in AlignOutcomes, wrote \in BOOLEAN :
        /\ out # "ok" => ~wrote
        /\ ccalls' = Append(ccalls, Call("icesat2", InputDem, out, wrote))
        /\ result' = Icesat2Result(out, wrote)
        /\ msgs' = msgs \o Icesat2Reports(out)
    /\ cpc' = "report"
    /\ UNCHANGED <<method, cop30_result, elev_filter, branch, temp_dir, coregOuter>>

RunsRefinementAlways(cop) == TRUE
\* if cop30_result:
RunsRefinement(cop) == cop # None

RefinementInputRaw(raw, cop) == raw
\* the raster handed to the refinement: run_icesat2_coregistration(cop30_result, ...)
RefinementInput(raw, cop) == cop

\* cop30_result = run_cop30_coregistration(dem_path, ...); else: result = None
EnsembleCop30 ==
    /\ cpc = "ens_cop30"
    /\ \E out \in AlignOutcomes, wrote \in BOOLEAN :
        /\ out # "ok" => ~wrote
        /\ ccalls' = Append(ccalls, Call("cop30", InputDem, out, wrote))
        /\ cop30_result' = Cop30Result(out, wrote)
        /\ msgs' = msgs \o Cop30Reports(out)
    /\ IF RunsRefinement(cop30_result')
       THEN cpc' = "ens_icesat2" /\ UNCHANGED result
       ELSE cpc' = "report" /\ result' = None
    /\ UNCHANGED <<method, elev_filter, branch, temp_dir, coregOuter>>

\* result = run_icesat2_coregistration(cop30_result, ...)
EnsembleIcesat2 ==
    /\ cpc = "ens_icesat2"
    /\ \E out \in AlignOutcomes, wrote \in BOOLEAN :
        /\ out # "ok" => ~wrote
        /\ ccalls' = Append(ccalls,
                            Call("icesat2", RefinementInput(InputDem, cop30_result), out, wrote))
        /\ result' = Icesat2Result(out, wrote)
        /\ msgs' = msgs \o Icesat2Reports(out)
    /\ cpc' = "report"
    /\ UNCHANGED <<method, cop30_result, elev_filter, branch, temp_dir, coregOuter>>

\* if result: display_coregistration_results(result)
\* else: st.error("Coregistration failed")
FinalReport(r) ==
    IF r # None THEN Msg("success", "Coregistered DEM", 0)
    ELSE Msg("error", "Coregistration failed", 0)

CoregReport ==
    /\ cpc = "report"
    /\ msgs' = msgs \o <<Msg("status", "Coregistration complete!", 0), FinalReport(result)>>
    /\ cpc' = "done"
    /\ temp_dir' = TempDirAfterWith
    /\ UNCHANGED <<method, cop30_result, result, ccalls, elev_filter, branch, coregOuter>>

-----------------------------------------------------------------------------
(* process_end_to_end *)

\* The options of the "Coregistration Method" selectbox of the end-to-end form
E2ELabels ==
    { <<"COP30", "Only">>, <<"ICESat-2", "Only">>,
      <<"Ensemble", "(", "COP30", "+", "ICESat-2", ")">> }

\* The options of "Multiple Files Handling", offered for two files and more
MergeOptions(n) ==
    IF n > 1
    THEN {"Generate Individual DEMs Only", "Generate Individual + Merged DEM",
          "Generate Merged DEM Only"}
    ELSE {"Single DEM"}

e2eOuter == <<reconVars, mergeVars, coregVars, srsVars, temp_dir>>

\* status_text.text("Starting end-to-end processing...")
E2EStart ==
    /\ epc = "start"
    /\ msgs' = Append(msgs, Msg("status", "Starting end-to-end processing...", 0))
    /\ epc' = "reconstruction"
    /\ UNCHANGED <<validation, merge_option, e2eOuter>>

\* # Step 1: ASP Reconstruction
E2EReconstruction ==
    /\ epc = "reconstruction"
    /\ msgs' = Append(msgs, Msg("status", "DEM reconstruction in progress...", 0))
    /\ epc' = "coregistration"
    /\ UNCHANGED <<validation, merge_option, e2eOuter>>

\* # Step 2: Coregistration
E2ECoregistration ==
    /\ epc = "coregistration"
    /\ msgs' = Append(msgs, Msg("status", "Coregistration in progress...", 0))
    /\ epc' = IF validation THEN "validation" ELSE "complete"
    /\ UNCHANGED <<validation, merge_option, e2eOuter>>

\* # Step 3: Validation
E2EValidation ==
    /\ epc = "validation"
    /\ msgs' = Append(msgs, Msg("status", "Generating validation report...", 0))
    /\ epc' = "complete"
    /\ UNCHANGED <<validation, merge_option, e2eOuter>>

\* st.success("Processing completed successfully!")
E2EComplete ==
    /\ epc = "complete"
    /\ msgs' = msgs \o <<Msg("status", "End-to-end processing complete!", 0),
                         Msg("success", "Processing completed successfully!", 0)>>
    /\ epc' = "done"
    /\ UNCHANGED <<validation, merge_option, e2eOuter>>

-----------------------------------------------------------------------------
(* Specifications *)

\* Sequences of length lo..hi over S
SeqsOf(S, lo, hi) == UNION {[1..n -> S] : n \in lo..hi}

\* The uploads of a job: the first n names of an upload order, each with an
\* archive of any kind.  file_path = os.path.join(temp_dir, uploaded_file.name)
Jobs ==
    UNION { { [k \in 1..n |-> [name |-> order[k], archive |-> kinds[k]]] :
                kinds \in [1..n -> ArchiveKinds], order \in UploadOrders } :
            n \in 1..MaxInputs }

IdleRecon ==
    /\ aspReady = FALSE
    /\ extracted = {}
    /\ nested = {}
    /\ bands = [f \in BandFiles |-> 0]
    /\ pcFile = 0
    /\ demFiles = {}
    /\ results = <<>>
    /\ msgs = <<>>

IdleMerge ==
    /\ dem_files = <<>>
    /\ mpc = "idle"
    /\ tempDems = {}
    /\ handles = {}
    /\ mosaic = NoRaster
    /\ out_meta = NoGeometry
    /\ mergedFile = NoRaster
    /\ mergedMeta = NoGeometry
    /\ mergeRet = None

IdleCoreg ==
    /\ method = <<>>
    /\ cpc = "idle"
    /\ cop30_result = None
    /\ result = None
    /\ ccalls = <<>>
    /\ elev_filter = FALSE
    /\ branch = "none"

IdleSrs ==
    /\ coord_system = AutoUtm
    /\ custom_epsg = 32643
    /\ zone = 43
    /\ resolution = 30
    /\ spc = "idle"
    /\ target_srs = 0
    /\ point2dem_cmd = NoCommand

IdleE2E ==
    /\ epc = "idle"
    /\ validation = FALSE
    /\ merge_option = "Single DEM"

\* A reconstruction job: process_asp_reconstruction over 1..MaxInputs uploads.
Init ==
    /\ inputs \in Jobs
    /\ cur = 1
    /\ pc = "extract"
    /\ run = [i \in 1..Len(inputs) |-> NewRun]
    /\ IdleRecon
    /\ IdleMerge
    /\ IdleCoreg
    /\ IdleSrs
    /\ IdleE2E
    /\ temp_dir = "exists"

\* process_asp_reconstruction calls merge_dems with two results or more, so
\* the single-tile branch of merge_dems (MergeSingle) is out of its reach.
Next ==
    \/ Extract
    \/ Convert
    \/ Stereo
    \/ Point2dem
    \/ MergeCheck
    \/ MergeCopy
    \/ MergeOpen
    \/ MergeMosaic
    \/ MergeWrite
    \/ MergeReturn
    \/ Display

Spec == Init /\ [][Next]_vars

\* merge_dems called on 0..MaxTiles tiles.
InitMerge ==
    /\ inputs = <<>>
    /\ cur = 1
    /\ pc = "merge"
    /\ run = <<>>
    /\ IdleRecon
    /\ \E tiles \in SeqsOf(Tiles, 0, MaxTiles), k \in 0..MaxTiles :
            dem_files = Refined(tiles, k)
    /\ mpc = "start"
    /\ tempDems = {}
    /\ handles = {}
    /\ mosaic = NoRaster
    /\ out_meta = NoGeometry
    /\ mergedFile = NoRaster
    /\ mergedMeta = NoGeometry
    /\ mergeRet = None
    /\ IdleCoreg
    /\ IdleSrs
    /\ IdleE2E
    /\ temp_dir = "exists"

NextMerge ==
    \/ MergeSingle
    \/ MergeCopy
    \/ MergeOpen
    \/ MergeMosaic
    \/ MergeWrite

SpecMerge == InitMerge /\ [][NextMerge]_vars

\* A coregistration job: process_coregistration with one method label.
InitCoreg ==
    /\ inputs = <<>>
    /\ cur = 1
    /\ pc = "idle"
    /\ run = <<>>
    /\ IdleRecon
    /\ IdleMerge
    /\ method \in MethodLabels
    /\ cpc = "start"
    /\ cop30_result = None
    /\ result = None
    /\ ccalls = <<>>
    /\ elev_filter \in BOOLEAN
    /\ branch = "none"
    /\ IdleSrs
    /\ IdleE2E
    /\ temp_dir = "exists"

NextCoreg ==
    \/ CoregSave
    \/ CoregDispatch
    \/ RunCop30
    \/ RunIcesat2
    \/ EnsembleCop30
    \/ EnsembleIcesat2
    \/ CoregReport

SpecCoreg == InitCoreg /\ [][NextCoreg]_vars

\* Both kinds of job: a reconstruction job or a coregistration job.
InitJobs == Init \/ InitCoreg

NextJobs ==
    \/ Extract
    \/ Convert
    \/ Stereo
    \/ Point2dem
    \/ MergeCheck
    \/ MergeCopy
    \/ MergeOpen
    \/ MergeMosaic
    \/ MergeWrite
    \/ MergeReturn
    \/ Display
    \/ CoregSave
    \/ CoregDispatch
    \/ RunCop30
    \/ RunIcesat2
    \/ EnsembleCop30
    \/ EnsembleIcesat2
    \/ CoregReport

SpecJobs == InitJobs /\ [][NextJobs]_vars

\* The coordinate system and the point2dem command of one call of
\* run_asp_processing, for every choice of the form's options.
InitSrs ==
    /\ inputs = <<>>
    /\ cur = 1
    /\ pc = "idle"
    /\ run = <<>>
    /\ IdleRecon
    /\ IdleMerge
    /\ IdleCoreg
    /\ IdleE2E
    /\ temp_dir = "exists"
    /\ coord_system \in CoordSystems
    /\ custom_epsg \in EpsgCodes
    /\ zone \in Zones
    /\ resolution \in Resolutions
    /\ spc = "srs"
    /\ target_srs = 0
    /\ point2dem_cmd = NoCommand

NextSrs ==
    \/ ResolveSrs
    \/ BuildPoint2dem

SpecSrs == InitSrs /\ [][NextSrs]_vars

\* An end-to-end job: process_end_to_end over 1..MaxInputs uploads.
InitE2E ==
    /\ inputs \in Jobs
    /\ cur = 1
    /\ pc = "idle"
    /\ run = [i \in 1..Len(inputs) |-> NewRun]
    /\ IdleRecon
    /\ IdleMerge
    /\ method \in E2ELabels
    /\ cpc = "idle"
    /\ cop30_result = None
    /\ result = None
    /\ ccalls = <<>>
    /\ elev_filter = FALSE
    /\ branch = "none"
    /\ IdleSrs
    /\ temp_dir = "none"
    /\ epc = "start"
    /\ validation \in BOOLEAN
    /\ merge_option \in MergeOptions(Len(inputs))

NextE2E ==
    \/ E2EStart
    \/ E2EReconstruction
    \/ E2ECoregistration
    \/ E2EValidation
    \/ E2EComplete

SpecE2E == InitE2E /\ [][NextE2E]_vars

-----------------------------------------------------------------------------
(* Properties of the reconstruction pipeline *)

Finished(i) == run[i].status \in {"ok", "failed"}

ExtractionFailed(i) == run[i].status = "failed" /\ ~run[i].gate.tifs
ConversionFailed(i) ==
    /\ run[i].status = "failed"
    /\ run[i].gate.tifs
    /\ (run[i].outcome.aster2asp # "ok" \/ ~run[i].gate.bands)
CorrelationFailed(i) ==
    /\ run[i].status = "failed"
    /\ run[i].calls.stereo > 0
    /\ (run[i].outcome.stereo # "ok" \/ ~run[i].gate.pc)

\* C1: a stage's tool runs only behind the gates of its predecessors: aster2asp
\* only after *.tif files were found; stereo only after that, aster2asp
\* exiting 0 and both band images being found; point2dem only after stereo
\* exiting 0 and stereo-PC.tif existing.  Once a stage of an input has failed,
\* the tools of the later stages have not been invoked for that input.
C1_StageGates ==
    \A i \in 1..N :
        /\ run[i].calls.aster2asp > 0 => run[i].gate.tifs
        /\ run[i].calls.stereo > 0 =>
              /\ run[i].gate.tifs
              /\ run[i].outcome.aster2asp = "ok"
              /\ run[i].gate.bands
        /\ run[i].calls.point2dem > 0 =>
              /\ run[i].calls.stereo > 0
              /\ run[i].outcome.stereo = "ok"
              /\ run[i].gate.pc
        /\ ExtractionFailed(i) =>
              run[i].calls = [aster2asp |-> 0, stereo |-> 0, point2dem |-> 0]
        /\ ConversionFailed(i) =>
              run[i].calls.stereo = 0 /\ run[i].calls.point2dem = 0
        /\ CorrelationFailed(i) => run[i].calls.point2dem = 0

\* A job in which one input went through point2dem and another one failed at
\* the conversion tool, after which stereo was not run for it.
C1_Witness ==
    /\ pc = "done"
    /\ \E i, j \in 1..N :
        /\ run[i].calls.point2dem = 1
        /\ ConversionFailed(j)
        /\ run[j].outcome.aster2asp = "fail"

LoopDone == N >= 1 /\ pc \in {"merge_check", "merge", "display", "done"}

\* What the pipeline of input j yields when nothing of another input is in the
\* directories it reads: its own archive has imagery at the root, every tool
\* exits 0 and every artifact a gate looks for was written by j's own
\* invocation.
StandaloneOk(j) ==
    /\ inputs[j].archive = "root"
    /\ run[j].outcome.aster2asp = "ok" /\ run[j].own.bands
    /\ run[j].outcome.stereo = "ok" /\ run[j].own.pc
    /\ run[j].outcome.point2dem = "ok" /\ run[j].own.dem

\* C7: when the loop over the inputs is over, every input has been run through
\* its pipeline, whatever happened to the others, and an input succeeded
\* exactly when its own archive and its own tool runs make it succeed: its
\* outcome does not depend on what another input did.
C7_SiblingsIndependent ==
    LoopDone =>
        \A j \in 1..N : Finished(j) /\ (run[j].status = "ok" <=> StandaloneOk(j))

\* The first half of C7 alone: a failure of one input does not stop the loop,
\* every input is run.
EveryInputRuns == LoopDone => \A j \in 1..N : Finished(j)

CallsOf(tool) == {k \in 1..Len(ccalls) : ccalls[k].tool = tool}

\* C8: no tool is invoked twice for one input of a job, whatever its outcome:
\* aster2asp, stereo and point2dem at most once per archive, each alignment
\* method at most once per coregistration job.
C8_NoRetry ==
    /\ \A i \in 1..N :
        /\ run[i].calls.aster2asp <= 1
        /\ run[i].calls.stereo <= 1
        /\ run[i].calls.point2dem <= 1
    /\ Cardinality(CallsOf("cop30")) <= 1
    /\ Cardinality(CallsOf("icesat2")) <= 1

\* A finished job in which stereo failed for an input and was run once for it.
C8_Witness ==
    /\ pc = "done"
    /\ \E i \in 1..N :
        /\ run[i].outcome.stereo \in {"fail", "timeout"}
        /\ run[i].calls.stereo = 1

\* C9: run_asp_processing returns a path only when every stage succeeded and
\* its point2dem run wrote the elevation raster; after any failure, a
\* point2dem that exits 0 without writing its output included, it returns
\* None.
C9_ArtifactOnlyOnSuccess ==
    \A i \in 1..N :
        Finished(i) =>
            /\ run[i].ret # None =>
                  /\ run[i].gate.tifs
                  /\ run[i].outcome.aster2asp = "ok" /\ run[i].gate.bands
                  /\ run[i].outcome.stereo = "ok" /\ run[i].gate.pc
                  /\ run[i].outcome.point2dem = "ok" /\ run[i].own.dem
            /\ run[i].status = "failed" => run[i].ret = None

-----------------------------------------------------------------------------
(* Properties of merge_dems *)

MergeSucceeded == mpc = "returned" /\ mergeRet = MergedPath

\* The valid values the tiles that exist hold at pixel p.
InputValues(p) == {dem_files[k].data[p] : k \in ExistingTiles} \ {NoData}

\* C10: when merge_dems has written its output, at every pixel that at least
\* one tile covers the output holds a value of one of the tiles there, and no
\* tile holds a larger one; with a single tile that is the tile's own value.
C10_MergedIsMax ==
    MergeSucceeded =>
        \A p \in Pixels :
            InputValues(p) # {} =>
                /\ mergedFile[p] \in InputValues(p)
                /\ \A v \in InputValues(p) : v <= mergedFile[p]

\* Three tiles of the same footprint, flat at 100, 150 and 200, merged to a
\* raster that is 200 everywhere.
C10_Witness ==
    /\ MergeSucceeded
    /\ Len(dem_files) = 3
    /\ \A k \in 1..3 : dem_files[k].exists
    /\ {dem_files[k].data : k \in 1..3} = {FlatRaster(v, Pixels) : v \in Elevations}
    /\ mergedFile = FlatRaster(200, Pixels)

-----------------------------------------------------------------------------
(* Properties of process_coregistration *)

\* The caller asked for the ensemble: the label says so.
EnsembleSelected == Contains(method, "Ensemble")

Succeeded(call) == call.out = "ok" /\ call.wrote

ReferenceAFailed == \E k \in CallsOf("cop30") : ~Succeeded(ccalls[k])
ReferenceASucceeded == \E k \in CallsOf("cop30") : Succeeded(ccalls[k])
ReferenceBFailed == \E k \in CallsOf("icesat2") : ~Succeeded(ccalls[k])

Reported(level, text) == \E k \in 1..Len(msgs) : msgs[k].level = level /\ msgs[k].text = text
ReportedLevel(level) == \E k \in 1..Len(msgs) : msgs[k].level = level

\* C2: in an ensemble job whose COP30 run failed (it raised, exited non-zero or
\* left no output), the ICESat-2 tool is not invoked, on the raw raster or on
\* anything else, and the result is None.
C2_NoFallbackToReferenceB ==
    (EnsembleSelected /\ ReferenceAFailed) =>
        /\ CallsOf("icesat2") = {}
        /\ result = None

\* A finished job that took the ensemble branch and whose COP30 run failed.
C2_Witness ==
    /\ cpc = "done"
    /\ branch = "ensemble"
    /\ ReferenceAFailed
    /\ ReportedLevel("status")

\* C3: a finished ensemble job whose COP30 run succeeded and whose ICESat-2 run
\* failed has the COP30 output as its result, has recorded a warning, and has
\* not reported "Coregistration failed".
C3_ReferenceAResultKept ==
    (cpc = "done" /\ EnsembleSelected /\ ReferenceASucceeded /\ ReferenceBFailed) =>
        /\ result = Cop30Out
        /\ ReportedLevel("warning")
        /\ ~Reported("error", "Coregistration failed")

\* C4: a finished job started with the ensemble label of the radio, all of
\* whose tool runs succeeded, has made exactly two invocations, COP30 then
\* ICESat-2, and its result is the ICESat-2 output.
C4_EnsembleRunsBoth ==
    (/\ cpc = "done"
     /\ method = LabelEnsemble
     /\ ReportedLevel("status")
     /\ \A k \in 1..Len(ccalls) : Succeeded(ccalls[k])) =>
        /\ Len(ccalls) = 2
        /\ ccalls[1].tool = "cop30"
        /\ ccalls[2].tool = "icesat2"
        /\ result = Icesat2Out

\* C5: whenever the ICESat-2 tool is invoked in an ensemble job, it is the
\* second invocation, the first was a COP30 run that exited 0 and left its
\* output, and the raster it is given is that output, not the uploaded one.
C5_RefinementConsumesReferenceA ==
    EnsembleSelected =>
        \A k \in CallsOf("icesat2") :
            /\ k = 2
            /\ ccalls[1].tool = "cop30"
            /\ ccalls[1].dem = InputDem
            /\ Succeeded(ccalls[1])
            /\ ccalls[k].dem = Cop30Out
            /\ ccalls[k].dem # InputDem

\* An ensemble job in which the ICESat-2 tool has been invoked.
C5_Witness ==
    /\ EnsembleSelected
    /\ CallsOf("icesat2") # {}
    /\ cpc = "done"

\* C6: a finished job for ICESat-2 alone whose tool exited non-zero has result
\* None, has recorded a warning and no error, and has run to its final status
\* report.
C6_ReferenceBFailureIsWarning ==
    (/\ cpc = "done"
     /\ method = LabelIcesat2
     /\ \E k \in CallsOf("icesat2") : ccalls[k].out = "fail") =>
        /\ result = None
        /\ ReportedLevel("warning")
        /\ ~ReportedLevel("error")
        /\ ReportedLevel("status")

-----------------------------------------------------------------------------
(* Further properties of merge_dems *)

SingleTile == Len(dem_files) = 1 /\ dem_files[1].exists
SeveralInputs == Len(dem_files) > 1

\* C11: merge_dems called with exactly one tile never reaches the copy to
\* temp_dems, the opening of sources or the mosaic: when it has returned, it
\* has returned the output path, the output holds the tile's elevation values
\* and geometry, and no mosaic was computed.
C11_SingleTilePassThrough ==
    SingleTile =>
        /\ mpc \in {"start", "returned"}
        /\ tempDems = {} /\ handles = {}
        /\ mosaic = NoRaster /\ out_meta = NoGeometry
        /\ mpc = "returned" =>
              /\ mergeRet = MergedPath
              /\ mergedFile = dem_files[1].data
              /\ mergedMeta = dem_files[1].geom

\* One tile, flat at 150 over the second pixel only, copied to the output.
C11_Witness ==
    /\ SingleTile
    /\ dem_files[1].data = FlatRaster(150, {2})
    /\ mpc = "returned"
    /\ mergeRet = MergedPath
    /\ mergedFile = FlatRaster(150, {2})

\* What merge_dems writes for the tiles that exist when the order of the
\* sources puts tile k first.
OutputWithFirst(k) == [data |-> MergeMethodMax(ExistingTiles), meta |-> OutMeta(k)]

\* C12: the output of a merge of several tiles, values and inherited
\* metadata, is the same whichever of the tiles the order puts first.
C12_OrderIndependent ==
    (MergeSucceeded /\ SeveralInputs) =>
        \A k \in ExistingTiles :
            OutputWithFirst(k) = [data |-> mergedFile, meta |-> mergedMeta]

\* C13: when merge_dems has returned, on whatever path, it holds no source
\* handle open.
C13_HandlesClosedOnReturn == mpc = "returned" => handles = {}

\* C14: only tiles that exist are copied and opened; when none of the paths
\* given exists, merge_dems returns None, writes no output and reports that
\* there are no valid DEM files to merge.
C14_NoValidTiles ==
    /\ tempDems \subseteq ExistingTiles
    /\ handles \subseteq ExistingTiles
    /\ (mpc = "returned" /\ ExistingTiles = {}) =>
          /\ mergeRet = None
          /\ mergedFile = NoRaster
          /\ Reported("error", "No valid DEM files to merge")

\* The first of the tiles given that exists.
FirstInput == CHOOSE k \in ExistingTiles : \A j \in ExistingTiles : k <= j
CompatibleTiles == \A j, k \in ExistingTiles : dem_files[j].geom = dem_files[k].geom

\* C15: a merge of several tiles that has written its output has given it the
\* reference system and pixel size of the first tile, and a merge of tiles
\* that do not all share one reference system and pixel size returns None
\* and writes no output.
C15_FirstInputGeometry ==
    /\ (MergeSucceeded /\ SeveralInputs) => mergedMeta = OutMeta(FirstInput)
    /\ (mpc = "returned" /\ SeveralInputs /\ ~CompatibleTiles) =>
          mergeRet = None /\ mergedFile = NoRaster

-----------------------------------------------------------------------------
(* Further properties of the reconstruction pipeline *)

ReportedFor(i, level, text) ==
    \E k \in 1..Len(msgs) : msgs[k] = Msg(level, text, i)

\* C16: when aster2asp exited 0 for an input and any of the four product
\* files (the two band images and their metadata files) is not there, stereo
\* is not invoked for that input and the input ends as failed.
C16_ConversionOutputsComplete ==
    \A i \in 1..N :
        (run[i].outcome.aster2asp = "ok" /\ ~(run[i].gate.bands /\ run[i].gate.meta)) =>
            /\ run[i].calls.stereo = 0
            /\ Finished(i) => run[i].status = "failed"

\* C17: for every input, the first or a later one, when stereo exited 0 and
\* that invocation wrote no point cloud, point2dem is not invoked for the
\* input, and the input ends as failed with the report that the point cloud
\* file was not found.
C17_PointCloudOfThisRun ==
    \A i \in 1..N :
        (run[i].outcome.stereo = "ok" /\ ~run[i].own.pc) =>
            /\ run[i].calls.point2dem = 0
            /\ Finished(i) =>
                  /\ run[i].status = "failed"
                  /\ ReportedFor(i, "error", "Point cloud file not found")

\* C19: an archive with its imagery one directory deep passes the search for
\* input files like one with its imagery at the root, and the report that no
\* TIF files were found is given only for an archive that has imagery in
\* neither place.
C19_BothLayoutsAccepted ==
    \A i \in 1..N :
        /\ (inputs[i].archive \in {"root", "nested"} /\ run[i].status # "pending")
              => run[i].gate.tifs
        /\ ReportedFor(i, "error", "No TIF files found in zip archive")
              => inputs[i].archive \notin {"root", "nested"}

\* C20: an input whose extraction raised has left none of its files in the
\* extraction directory.
C20_NoPartialExtraction ==
    \A i \in 1..N :
        (inputs[i].archive \in {"unreadable", "truncated"} /\ Finished(i)) =>
            i \notin extracted

-----------------------------------------------------------------------------
(* Further properties of process_coregistration *)

NoOutput(call) == call.out = "ok" /\ ~call.wrote

\* C18: an alignment run that exited 0 and left no file matching its method's
\* pattern is the last invocation of the job and gives the result None; in
\* the ensemble branch such a COP30 run leaves cop30_result None, so that the
\* ICESat-2 tool is not invoked.
C18_ExitZeroWithoutOutput ==
    \A k \in 1..Len(ccalls) :
        NoOutput(ccalls[k]) =>
            /\ k = Len(ccalls)
            /\ cpc \in {"report", "done"}
            /\ result = None
            /\ (branch = "ensemble" /\ ccalls[k].tool = "cop30") => cop30_result = None

\* A finished ensemble job whose COP30 run exited 0 and left no output.
C18_Witness ==
    /\ cpc = "done"
    /\ branch = "ensemble"
    /\ Len(ccalls) = 1
    /\ ccalls[1].tool = "cop30"
    /\ NoOutput(ccalls[1])
    /\ result = None

-----------------------------------------------------------------------------
(* Properties of process_asp_reconstruction *)

\* The paths the first n inputs returned, in input order, those that
\* succeeded only.
RECURSIVE ArtifactsUpTo(_)
ArtifactsUpTo(n) ==
    IF n = 0 THEN <<>>
    ELSE IF run[n].status = "ok" THEN Append(ArtifactsUpTo(n - 1), run[n].ret)
    ELSE ArtifactsUpTo(n - 1)

\* C23: while merge_dems runs in a job, every input's pipeline has ended, as
\* succeeded or as failed, and the tiles merge_dems was given are the
\* artifacts of the inputs that succeeded, one for one and in input order.
C23_MergeIsBarrier ==
    pc = "merge" =>
        /\ \A i \in 1..N : Finished(i)
        /\ results = ArtifactsUpTo(N)
        /\ Len(dem_files) = Len(results)
        /\ \A k \in 1..Len(results) :
              dem_files[k].exists /\ dem_files[k].data = DemData(results[k])

\* A job of two inputs, both ended as succeeded, inside merge_dems.
C23_Witness ==
    /\ pc = "merge"
    /\ mpc = "open"
    /\ N = 2
    /\ \A i \in 1..N : run[i].status = "ok"
    /\ Len(dem_files) = 2

StageDirs(i) == {ExtractDir(i), AspOutputDir(i), StereoDir(i)}

\* C24: two distinct inputs of a job that have both been started have
\* disjoint extraction, conversion and correlation directories.
C24_OwnWorkingDirectory ==
    \A i, j \in 1..N :
        (i # j /\ run[i].status # "pending" /\ run[j].status # "pending") =>
            StageDirs(i) \cap StageDirs(j) = {}

\* C25: when aster2asp is about to run for an input, the extraction
\* directory holds files of that input's archive only; stereo has been
\* invoked for an input only on band images its own aster2asp run wrote, and
\* point2dem only on a point cloud its own stereo run wrote.
C25_StagesUseOwnArtifacts ==
    /\ pc = "convert" => extracted \subseteq {cur}
    /\ \A i \in 1..N :
        /\ run[i].calls.aster2asp > 0 => run[i].own.tifs
        /\ run[i].calls.stereo > 0 => run[i].own.bands
        /\ run[i].calls.point2dem > 0 => run[i].own.pc

ErrorsFor(i) == {k \in 1..Len(msgs) : msgs[k].level = "error" /\ msgs[k].input = i}
InResults(r) == \E k \in 1..Len(results) : results[k] = r
LoopLeft == pc \in {"merge_check", "merge", "display", "done"}

-----------------------------------------------------------------------------
(* Properties of the method dispatch of process_coregistration *)

Dispatched == cpc \in {"report", "done"} /\ branch # "none"

\* C30: with the COP30 label the ICESat-2 tool is never invoked, with the
\* ICESat-2 label the COP30 tool is never invoked; with either label there
\* is at most one invocation, it is given the uploaded raster, and once the
\* dispatch is through there is exactly one.
C30_SingleMethodExclusive ==
    /\ method = LabelCop30 => CallsOf("icesat2") = {}
    /\ method = LabelIcesat2 => CallsOf("cop30") = {}
    /\ method \in {LabelCop30, LabelIcesat2} =>
          /\ Len(ccalls) <= 1
          /\ \A k \in 1..Len(ccalls) : ccalls[k].dem = InputDem
          /\ Dispatched => Len(ccalls) = 1

\* A finished job with the COP30 label: one COP30 invocation on the uploaded
\* raster.
C30_Witness ==
    /\ method = LabelCop30
    /\ cpc = "done"
    /\ Len(ccalls) = 1
    /\ ccalls[1].tool = "cop30"
    /\ ccalls[1].dem = InputDem

-----------------------------------------------------------------------------
(* Properties of the tool invocations of run_asp_processing *)

TimedOut(i) ==
    \E t \in {"aster2asp", "stereo", "point2dem"} : run[i].outcome[t] = "timeout"

\* C22: an input one of whose tool invocations ran into its timeout has
\* ended as failed with the report that processing timed out, and no process
\* of that invocation is still running.
C22_TimeoutKillsChildren ==
    \A i \in 1..N :
        TimedOut(i) =>
            /\ run[i].status = "failed"
            /\ ReportedFor(i, "error", "Processing timed out")
            /\ ~run[i].orphan

-----------------------------------------------------------------------------
(* Properties of the coordinate system handed to point2dem *)

\* EPSG code of WGS 84 / UTM zone z, northern hemisphere
UtmEpsg(z) == 32600 + z

\* C21: with the automatic coordinate system the --t_srs of the point2dem
\* command is the UTM reference of the zone the scene's longitude lies in, so
\* that scenes of different zones get different references.
C21_AutoSrsFromLongitude ==
    (coord_system = AutoUtm /\ spc = "built") =>
        point2dem_cmd.t_srs = UtmEpsg(zone)

-----------------------------------------------------------------------------
(* Properties of process_end_to_end *)

\* C26: when the end-to-end job has reported that processing completed
\* successfully, every input's pipeline has been run to its end and the
\* alignment tool of the selected coregistration has been invoked.
C26_EndToEndRunsStages ==
    Reported("success", "Processing completed successfully!") =>
        /\ \A i \in 1..N : Finished(i)
        /\ ccalls # <<>>

-----------------------------------------------------------------------------
(* Properties of the failure reports *)

\* The input failed at a check of an expected file after its tool exited 0.
GateFailed(i) ==
    /\ run[i].status = "failed"
    /\ \/ run[i].outcome.aster2asp = "ok" /\ ~run[i].gate.bands
       \/ run[i].outcome.stereo = "ok" /\ ~run[i].gate.pc
       \/ run[i].outcome.point2dem = "ok" /\ ~run[i].gate.dem

\* C27: for an input that failed at the check of an expected file or by a
\* timeout, an error carrying the tool's captured output has been reported;
\* and after a COP30 run that raised or exited 0 without an output file an
\* error carrying the tool's captured output has been reported.
C27_FailuresCarryToolOutput ==
    /\ \A i \in 1..N :
          (GateFailed(i) \/ (run[i].status = "failed" /\ TimedOut(i))) =>
              \E k \in ErrorsFor(i) : CarriesToolOutput(msgs[k])
    /\ \A c \in CallsOf("cop30") :
          (ccalls[c].out \in {"timeout", "launch"} \/ NoOutput(ccalls[c])) =>
              \E k \in 1..Len(msgs) :
                  msgs[k].level = "error" /\ CarriesToolOutput(msgs[k])

-----------------------------------------------------------------------------
(* Properties of the job's temporary directory *)

\* C29: when process_asp_reconstruction or process_coregistration has
\* returned, by its normal end, after failed stages or after an exception,
\* the job's temporary directory is removed.
C29_TempDirDiscarded ==
    (pc = "done" \/ cpc = "done") => temp_dir = "removed"

\* A coregistration job ended by an exception while the upload was saved:
\* no method was dispatched, and the directory is removed.
C29_Witness ==
    /\ cpc = "done"
    /\ branch = "none"
    /\ Reported("error", "Coregistration failed")
    /\ temp_dir = "removed"

-----------------------------------------------------------------------------
(* Properties of the result list of process_asp_reconstruction *)

MergeInvoked == mpc # "idle"
MergedArtifact == IF MergeSucceeded THEN <<MergedPath>> ELSE <<>>

\* C31: once the loop over the inputs is decided upon, merge_dems has been
\* invoked exactly when two inputs or more returned an artifact; merge_dems
\* returns a path only when it wrote the merged raster; and when the job
\* displays its results the list is the artifacts of the inputs that
\* succeeded, in input order, followed by the merged artifact when the merge
\* was invoked and succeeded.
C31_MergeIffTwoArtifacts ==
    /\ pc \in {"merge", "display", "done"} =>
          (MergeInvoked <=> Len(ArtifactsUpTo(N)) >= 2)
    /\ (mpc = "returned" /\ mergeRet # None) =>
          (mergeRet = MergedPath /\ mergedFile = mosaic)
    /\ pc \in {"display", "done"} =>
          results = ArtifactsUpTo(N) \o MergedArtifact

\* A finished job of two inputs that both succeeded and whose merge
\* succeeded: two artifacts and the merged one.
C31_Witness ==
    /\ pc = "done"
    /\ N = 2
    /\ MergeSucceeded
    /\ Len(results) = 3
    /\ results[3] = MergedPath

-----------------------------------------------------------------------------
(* Properties of an explicitly selected coordinate system *)

\* C32: the --t_srs of the point2dem command is EPSG:4326 when WGS84 is
\* selected, and the code typed in when "Custom EPSG" is selected.
C32_ExplicitSrsHonoured ==
    spc = "built" =>
        /\ coord_system = Wgs84 => point2dem_cmd.t_srs = 4326
        /\ coord_system = CustomEpsg => point2dem_cmd.t_srs = custom_epsg

====
